---- MODULE Spec2Model ----
(***************************************************************************)
(* The JSON editor block: EditorGuard (the owner), its useDebounced hook,  *)
(* and the Monaco component that adapts the editing widget to the value of *)
(* the selected cell.                                                      *)
(*                                                                         *)
(* Execution is single-threaded.  A handler runs to completion; a state    *)
(* update made by a handler is followed by the re-render before any other  *)
(* event is handled (dirty components block every event).  The one         *)
(* deferred part of a render is its passive effects (useEffect), which are *)
(* flushed later, and always before the next render: events may arrive     *)
(* between a commit and the flush of its effects.                          *)
(*                                                                         *)
(* Texts are sequences of characters; time is counted in milliseconds and  *)
(* advances in steps of TimeStep.                                            *)
(***************************************************************************)
EXTENDS Integers, Sequences, FiniteSets, Bags, TLC

\* ---------------------------------------------------------------- bounds
\* The longest text the user types, and the number of inputs the environment
\* makes in one run (keystrokes, selection changes, edits by others, decoration
\* events, permission changes, resizes, the unmount).
MaxLen == 2
MaxInputs == 4
\* The longest list of markers markersMatch is tried on.
MaxMarkers == 2

\* ------------------------------------------------------------- constants
changeDelay == 500
TimeStep == changeDelay \div 2

Chars == {"a", "b"}
Str == UNION {[1..n -> Chars] : n \in 0..MaxLen}
Cells == {1, 2}
NoCell == 0
NoTimer == 0 - 1
NoSub == 0

Min(a, b) == IF a < b THEN a ELSE b
Max(a, b) == IF a > b THEN a ELSE b

\* ------------------------------------------------------------- markers
Marker(line, col, msg) ==
    [startLineNumber |-> line, startColumn |-> col,
     endLineNumber |-> line, endColumn |-> col + 1, message |-> msg]
MarkerLists == {<< >>, <<Marker(1, 1, "m")>>, <<Marker(1, 2, "m")>>}

\* markersMatch: the same length, and the five fields equal at every index.
markersMatchAsSets(aMarkers, bMarkers) ==
    /\ Len(aMarkers) = Len(bMarkers)
    /\ \A index \in 1..Len(aMarkers) : \E other \in 1..Len(bMarkers) :
        /\ aMarkers[index].startLineNumber = bMarkers[other].startLineNumber
        /\ aMarkers[index].startColumn = bMarkers[other].startColumn
        /\ aMarkers[index].endLineNumber = bMarkers[other].endLineNumber
        /\ aMarkers[index].endColumn = bMarkers[other].endColumn
        /\ aMarkers[index].message = bMarkers[other].message
markersMatch(aMarkers, bMarkers) ==
    /\ Len(aMarkers) = Len(bMarkers)
    /\ \A index \in 1..Len(aMarkers) :
        /\ aMarkers[index].startLineNumber = bMarkers[index].startLineNumber
        /\ aMarkers[index].startColumn = bMarkers[index].startColumn
        /\ aMarkers[index].endLineNumber = bMarkers[index].endLineNumber
        /\ aMarkers[index].endColumn = bMarkers[index].endColumn
        /\ aMarkers[index].message = bMarkers[index].message

\* Markers as the widget gives them: the five fields markersMatch reads and
\* one it does not. FullMarkers has one marker and, for each field, the
\* marker that differs from it in that field alone.
FullMarker(sl, sc, el, ec, msg, sev) ==
    [startLineNumber |-> sl, startColumn |-> sc, endLineNumber |-> el,
     endColumn |-> ec, message |-> msg, severity |-> sev]
FullMarkers ==
    {FullMarker(1, 1, 1, 2, "m", 8), FullMarker(2, 1, 1, 2, "m", 8),
     FullMarker(1, 2, 1, 2, "m", 8), FullMarker(1, 1, 2, 2, "m", 8),
     FullMarker(1, 1, 1, 3, "m", 8), FullMarker(1, 1, 1, 2, "n", 8),
     FullMarker(1, 1, 1, 2, "m", 4)}
FullMarkerLists == UNION {[1..n -> FullMarkers] : n \in 0..MaxMarkers}

\* ------------------------------------------------------------- state
VARIABLES
    cells,          \* the base: the text of each cell
    selected,       \* JsonEditorApp: the selected cell (record and field), or NoCell
    hasPermission,  \* the base: checkPermissionsForUpdateRecord(...).hasPermission
    inflight,       \* table.updateRecordAsync requests not yet completed, oldest first
    windowMonaco,   \* window.monaco is set
    loads,          \* the loadMonacoAsync calls in progress, a bag
    G,              \* the EditorGuard instance
    deb,            \* the debounced functions useDebounced has created, by id
    M,              \* the Monaco component instance
    W,              \* the widget monaco.editor.create returned
    pendingFx,      \* passive effects of the last commit not yet flushed
    env,            \* how many inputs the environment has made
    obs,            \* the calls the last step made
    hist            \* what has been observed so far

vars == <<cells, selected, hasPermission, inflight, windowMonaco, loads, G, deb,
          M, W, pendingFx, env, obs, hist>>

\* ------------------------------------------------ lodash.debounce(func, wait)
\* One debounced function: the cell its fn closes over (selectedRecord and
\* selectedField of the render that created it), the time left on its timer
\* (NoTimer when none is set), the time since its last call, and lastArgs.
\* user, typedAt (observed, not program state): the last call came from a
\* keystroke; the cells that were selected when the text it carries was typed
\* (the widget's text is typed text from a keystroke until a render whose
\* value prop it is, or which overwrites it).
NewDebounced(cell) ==
    [cell |-> cell, timer |-> NoTimer, since |-> 0, args |-> << >>, user |-> FALSE,
     typedAt |-> {}]

\* debounced(...args): remember the arguments and the time of the call; start
\* the timer unless one is running.
Debounced(d, args) ==
    [d EXCEPT !.args = <<args>>, !.since = 0,
              !.timer = IF d.timer = NoTimer THEN changeDelay ELSE d.timer]

\* shouldInvoke(time), as timerExpired asks it: has the wait passed since the
\* last call?
shouldInvoke(d) == d.since >= changeDelay

\* remainingWait(time)
remainingWait(d) == changeDelay - d.since

\* trailingEdge(time): the timer and the arguments are cleared.
trailingEdge(d) == [d EXCEPT !.timer = NoTimer, !.args = << >>]

\* ------------------------------------------------------------ useDebounced
\* useMemo's dependencies [changeDelay, table, selectedRecord, selectedField]
\* changed (or this is the first render): a new function is created.
DepsChanged(g, deps) == ~g.rendered \/ g.memoDeps # deps

\* if (id !== count.current) return;
SupersededNever(id, current) == FALSE
SupersededInverted(id, current) == id = current
Superseded(id, current) == id # current

\* -------------------------------------------------------------- EditorGuard
\* The function given to useDebounced: the value equals the cell's text, so
\* the change came from setting the component's value.
IgnoredChange(value, cell) == value = cells[cell]

\* What the wrapped function does when lodash invokes it with `value`:
\* the requests it adds (none or one).
WrappedCall(id, value) ==
    IF Superseded(id, G.count) THEN << >>
    ELSE IF deb[id].cell = NoCell THEN << >>
    ELSE IF IgnoredChange(value, deb[id].cell) THEN << >>
    ELSE << [cell |-> deb[id].cell, value |-> value] >>

\* Whether the wrapped function reaches fn.
ReachesFn(id) == ~Superseded(id, G.count)

\* --------------------------------------------------------------- instances
NewGuard ==
    [live |-> TRUE, rendered |-> FALSE, dirty |-> TRUE,
     isLoading |-> TRUE, errors |-> << >>, signal |-> 0,
     count |-> 0, onChange |-> NoSub, memoDeps |-> NoCell,
     qIsLoading |-> FALSE, qErrors |-> << >>, qSignal |-> 0]

NoMonaco ==
    [mounted |-> FALSE, inst |-> 0, dirty |-> FALSE,
     monaco |-> FALSE, editor |-> FALSE, errors |-> << >>, valueRef |-> << >>,
     value |-> << >>, onChange |-> NoSub, readOnly |-> FALSE, signal |-> 0,
     changeSub |-> NoSub, decoSub |-> << >>,
     qMonaco |-> FALSE, qEditor |-> FALSE, qErrors |-> << >>]

NoWidget ==
    [exists |-> FALSE, disposed |-> FALSE, inst |-> 0, content |-> << >>,
     markers |-> << >>, readOnly |-> FALSE, language |-> "plaintext"]

\* The cleanup of the creation effect: newEditor.dispose().
DisposeNothing(w) == w
Dispose(w) == IF w.exists THEN [w EXCEPT !.disposed = TRUE] ELSE w

MonacoFx == {"load", "create", "changeSub", "decoSub", "syntax", "resize", "lang", "readOnly"}
GuardFx == {"force", "clear"}

\* What one step did: the calls it made on the widget, on the owner's callbacks
\* and on the table, each as a list of at most one call.
NoObs ==
    [setValue |-> << >>, layout |-> << >>, echo |-> << >>,
     create |-> << >>, wrapped |-> << >>, fn |-> << >>, update |-> << >>,
     onChange |-> << >>, syntax |-> << >>, onLoad |-> 0, loadStart |-> 0,
     match |-> << >>, key |-> << >>, user |-> FALSE, typedAt |-> {}]

NoBurst == [id |-> 0, n |-> 0, inv |-> 0, last |-> << >>, got |-> << >>]
NoHist ==
    [nOnLoad |-> 0, nLoads |-> 0, syntaxPrev |-> << >>, nUpdates |-> 0,
     lastUpdate |-> << >>, burst |-> NoBurst, keys |-> << >>, sinceKey |-> changeDelay,
     echo |-> << >>, disturbed |-> FALSE, nForce |-> 0, batch |-> 0, typedAt |-> {}]

HistCap == 3
Sat(n) == Min(n, HistCap)

\* ------------------------------------------------------------------ render
Dirty == G.dirty \/ M.dirty

\* A timer whose time has come; its callback runs before any later event.
TimerDue == \E id \in 1..Len(deb) : deb[id].timer = 0

\* No handler is running and nothing is left to render.
Idle == ~Dirty /\ ~TimerDue

\* The props EditorGuard gives Monaco in a render with useDebounced's result
\* onChange and render signal `signal`.
MonacoProps(onChange, signal) ==
    [value |-> IF selected = NoCell THEN << >> ELSE cells[selected],
     onChange |-> onChange, readOnly |-> ~hasPermission, signal |-> signal]

\* if (valueRef.current === value) return;
ValueUnchangedNever(ref, value) == FALSE
ValueUnchanged(ref, value) == ref = value

\* Monaco's useLayoutEffect on [editor, value], for an instance with state m
\* and value prop `value`: the text editor.setValue is called with, if any.
SetValueCall(m, value) ==
    IF ~m.editor THEN << >>
    ELSE IF ValueUnchanged(m.valueRef, value) THEN << >>
    ELSE <<value>>

\* The onDidChangeModelContent listener subscribed with onChange = sub, when
\* the widget's text has become newValue: valueRef.current = newValue and
\* onChange(newValue).
ListenerRefStale(sub, ref, newValue) == ref
ListenerCallsNone(sub, newValue) == << >>
ListenerRef(sub, ref, newValue) == IF sub = NoSub THEN ref ELSE newValue
ListenerCalls(sub, newValue) ==
    IF sub = NoSub THEN << >> ELSE << [id |-> sub, value |-> newValue] >>
ApplyCalls(debs, calls) ==
    IF calls = << >> THEN debs
    ELSE [debs EXCEPT ![calls[1].id] = Debounced(@, calls[1].value)]

\* The calls came from a keystroke (user) or from editor.setValue (observed,
\* not program state).
Origin(debs, calls, user, typedAt) ==
    IF calls = << >> THEN debs
    ELSE [debs EXCEPT ![calls[1].id].user = user, ![calls[1].id].typedAt = typedAt]

\* The widget's text changed, or the widget was created or disposed: every
\* request in flight was issued before that (observed, not program state).
Touch(reqs) == [i \in 1..Len(reqs) |-> [reqs[i] EXCEPT !.touched = TRUE]]

\* The burst of calls under way on the current debounced function (observed,
\* not program state): a call continues the burst when the function's timer is
\* running and less than changeDelay has passed since the call before it.
BurstCalls(b, calls, current) ==
    IF calls = << >> THEN (IF b.id = current THEN b ELSE NoBurst)
    ELSE IF calls[1].id # current THEN NoBurst
    ELSE IF /\ b.id = calls[1].id
            /\ deb[calls[1].id].timer # NoTimer
            /\ deb[calls[1].id].since < changeDelay
         THEN [b EXCEPT !.n = Sat(@ + 1), !.last = <<calls[1].value>>]
    ELSE [id |-> calls[1].id, n |-> 1, inv |-> 0,
          last |-> <<calls[1].value>>, got |-> << >>]

\* useState's queue at the next render: each of the n queued updaters
\* v => v + 1 is applied to the state.
ApplyUpdatesCoalesced(value, n) == IF n > 0 THEN value + 1 ELSE value
ApplyUpdates(value, n) == value + n

\* One render pass and its commit: EditorGuard when it is dirty, Monaco when it
\* or its parent is, the effects whose dependencies changed scheduled, and the
\* layout effect run.
Render ==
    /\ Dirty
    /\ pendingFx = {}
    /\ LET g == G.dirty
           first == ~G.rendered
           recreate == g /\ DepsChanged(G, selected)
           newCount == IF recreate THEN G.count + 1 ELSE G.count
           newOnChange == IF recreate THEN newCount ELSE G.onChange
           deb1 == IF recreate THEN Append(deb, NewDebounced(selected)) ELSE deb
           gErrCh == G.qErrors # << >>
           G1 == IF ~g THEN G
                 ELSE [G EXCEPT !.rendered = TRUE, !.dirty = FALSE,
                          !.isLoading = IF G.qIsLoading THEN FALSE ELSE @,
                          !.errors = IF gErrCh THEN G.qErrors[1] ELSE @,
                          !.signal = ApplyUpdates(@, G.qSignal),
                          !.count = newCount, !.onChange = newOnChange,
                          !.memoDeps = selected,
                          !.qIsLoading = FALSE, !.qErrors = << >>, !.qSignal = 0]
           gFx == IF ~g THEN {}
                  ELSE (IF first \/ gErrCh THEN {"force"} ELSE {})
                       \cup (IF first \/ G.memoDeps # selected THEN {"clear"} ELSE {})
           shown == IF g THEN selected # NoCell ELSE M.mounted
           P == IF g THEN MonacoProps(newOnChange, G1.signal)
                ELSE [value |-> M.value, onChange |-> M.onChange,
                      readOnly |-> M.readOnly, signal |-> M.signal]
           monacoCh == M.qMonaco /\ ~M.monaco
           editorCh == M.qEditor /\ ~M.editor
           errorsCh == M.qErrors # << >>
           m1 == [M EXCEPT !.dirty = FALSE,
                     !.monaco = @ \/ M.qMonaco, !.editor = @ \/ M.qEditor,
                     !.errors = IF errorsCh THEN M.qErrors[1] ELSE @,
                     !.value = P.value, !.onChange = P.onChange,
                     !.readOnly = P.readOnly, !.signal = P.signal,
                     !.qMonaco = FALSE, !.qEditor = FALSE, !.qErrors = << >>]
           set == IF editorCh \/ P.value # M.value THEN SetValueCall(m1, P.value) ELSE << >>
           calls == IF set = << >> THEN << >> ELSE ListenerCalls(M.changeSub, set[1])
           mFx == (IF monacoCh \/ g THEN {"load"} ELSE {})
                  \cup (IF monacoCh THEN {"create"} ELSE {})
                  \cup (IF editorCh \/ monacoCh \/ P.onChange # M.onChange
                        THEN {"changeSub"} ELSE {})
                  \cup (IF editorCh \/ monacoCh \/ errorsCh THEN {"decoSub"} ELSE {})
                  \cup (IF errorsCh THEN {"syntax"} ELSE {})
                  \cup (IF editorCh \/ P.signal # M.signal THEN {"resize"} ELSE {})
                  \cup (IF editorCh \/ monacoCh THEN {"lang"} ELSE {})
                  \cup (IF editorCh \/ P.readOnly # M.readOnly THEN {"readOnly"} ELSE {})
       IN
       /\ G' = G1
       /\ IF shown /\ ~M.mounted THEN
              \* mount: useState(window.monaco), useRef(value)
              /\ M' = [NoMonaco EXCEPT !.mounted = TRUE, !.inst = M.inst + 1,
                          !.monaco = windowMonaco, !.valueRef = P.value,
                          !.value = P.value, !.onChange = P.onChange,
                          !.readOnly = P.readOnly, !.signal = P.signal]
              /\ W' = W
              /\ deb' = deb1
              /\ pendingFx' = MonacoFx \cup gFx
              /\ obs' = NoObs
          ELSE IF shown THEN
              /\ M' = IF set = << >> THEN m1
                      ELSE [m1 EXCEPT !.valueRef = ListenerRef(M.changeSub, @, set[1])]
              /\ W' = IF set = << >> THEN W ELSE [W EXCEPT !.content = set[1]]
              /\ deb' = Origin(ApplyCalls(deb1, calls), calls, FALSE, {})
              /\ pendingFx' = mFx \cup gFx
              /\ obs' = [NoObs EXCEPT !.setValue = set, !.onChange = calls,
                           !.layout = IF m1.editor /\ (editorCh \/ P.value # M.value)
                                      THEN << [ref |-> M.valueRef, value |-> P.value, old |-> M.value] >>
                                      ELSE << >>,
                           !.echo = IF g THEN hist.echo ELSE << >>]
          ELSE
              \* Monaco is not rendered: an instance that was mounted is
              \* unmounted and the cleanups of its effects run.
              /\ M' = [NoMonaco EXCEPT !.inst = M.inst]
              /\ W' = Dispose(W)
              /\ deb' = deb1
              /\ pendingFx' = gFx
              /\ obs' = NoObs
       /\ hist' = [hist EXCEPT
                    !.nOnLoad = IF shown /\ ~M.mounted THEN 0 ELSE @,
                    !.burst = IF shown /\ M.mounted
                              THEN BurstCalls(@, calls, newCount)
                              ELSE BurstCalls(@, << >>, newCount),
                    !.echo = IF g THEN << >> ELSE @,
                    !.batch = IF g THEN Max(@, G.qSignal) ELSE @,
                    !.typedAt = IF shown /\ M.mounted /\ set = << >> /\ W.content # P.value
                                THEN @ ELSE {}]
       /\ inflight' = IF shown # M.mounted \/ (shown /\ set # << >>)
                      THEN Touch(inflight) ELSE inflight
    /\ UNCHANGED <<cells, selected, hasPermission, windowMonaco, loads, env>>

\* --------------------------------------------------------- passive effects
\* useRenderSignal: setValue(v => v + 1), queued until the next render.
forceRender(signal) == signal + 1

\* value: valueRef.current, the option monaco.editor.create is given.
SeedValue(m) == m.valueRef

\* The first await of loadMonacoAsync is pending.
NewLoad(inst) == [inst |-> inst, pc |-> "css"]

\* The effects of the last commit run, Monaco's before EditorGuard's, each in
\* the order the component declares them.
FlushPassive ==
    /\ pendingFx # {}
    /\ Dirty \/ ~TimerDue
    /\ LET has(fx) == fx \in pendingFx
           onLoad == has("load") /\ M.monaco
           load == has("load") /\ ~M.monaco
           create == has("create") /\ M.monaco
           syntax == has("syntax")
           force == has("force")
           clear == has("clear") /\ Len(G.errors) # 0
           setLoading == onLoad /\ G.isLoading
       IN
       /\ loads' = IF load THEN loads (+) SetToBag({NewLoad(M.inst)}) ELSE loads
       /\ W' = IF create
               THEN [NoWidget EXCEPT !.exists = TRUE, !.inst = M.inst, !.content = SeedValue(M)]
               ELSE [W EXCEPT
                       !.language = IF has("lang") /\ M.editor /\ M.monaco THEN "json" ELSE @,
                       !.readOnly = IF has("readOnly") /\ M.editor THEN M.readOnly ELSE @]
       /\ M' = [M EXCEPT
                  !.qEditor = @ \/ create,
                  !.dirty = @ \/ create,
                  !.changeSub = IF ~has("changeSub") THEN @
                                ELSE IF M.editor /\ M.monaco THEN M.onChange ELSE NoSub,
                  !.decoSub = IF ~has("decoSub") THEN @
                              ELSE IF M.editor /\ M.monaco THEN <<M.errors>> ELSE << >>]
       /\ G' = [G EXCEPT
                  !.qIsLoading = @ \/ setLoading,
                  !.qErrors = IF clear THEN << << >> >>
                              ELSE IF syntax THEN <<M.errors>> ELSE @,
                  !.qSignal = IF force THEN forceRender(@) ELSE @,
                  !.dirty = @ \/ setLoading \/ syntax \/ force \/ clear]
       /\ obs' = [NoObs EXCEPT
                    !.onLoad = IF onLoad THEN 1 ELSE 0,
                    !.loadStart = IF load THEN 1 ELSE 0,
                    !.create = IF create
                               THEN << [seed |-> SeedValue(M), value |-> M.value] >>
                               ELSE << >>,
                    !.syntax = IF syntax
                               THEN << [errors |-> M.errors, prev |-> hist.syntaxPrev] >>
                               ELSE << >>]
       /\ hist' = [hist EXCEPT
                    !.nOnLoad = IF onLoad THEN Sat(@ + 1) ELSE @,
                    !.nLoads = IF load THEN Sat(@ + 1) ELSE @,
                    !.syntaxPrev = IF syntax THEN M.errors ELSE @,
                    !.nForce = IF force THEN @ + 1 ELSE @]
    /\ pendingFx' = {}
    /\ UNCHANGED <<cells, selected, hasPermission, inflight, windowMonaco, deb, env>>

\* ------------------------------------------------------------- the widget
WidgetLive == W.exists /\ ~W.disposed

\* The user types one character: the widget's text changes and the widget
\* emits onDidChangeModelContent.
Keystroke(ch) ==
    /\ Idle
    /\ WidgetLive /\ ~W.readOnly
    /\ Len(W.content) < MaxLen
    /\ env < MaxInputs
    /\ LET newValue == Append(W.content, ch)
           calls == ListenerCalls(M.changeSub, newValue)
       IN
       /\ W' = [W EXCEPT !.content = newValue]
       /\ M' = [M EXCEPT !.valueRef = ListenerRef(M.changeSub, @, newValue)]
       /\ deb' = Origin(ApplyCalls(deb, calls), calls, TRUE, hist.typedAt \cup {selected})
       /\ obs' = [NoObs EXCEPT
                    !.onChange = calls,
                    !.key = << [content |-> newValue, prop |-> M.onChange] >>]
       /\ hist' = [hist EXCEPT
                    !.keys = Append(@, [ch |-> ch, fast |-> hist.sinceKey < changeDelay,
                                        heard |-> M.changeSub # NoSub /\ M.changeSub = G.count,
                                        before |-> W.content, cell |-> M.value]),
                    !.sinceKey = 0,
                    !.typedAt = @ \cup {selected},
                    !.burst = BurstCalls(@, calls, G.count)]
    /\ inflight' = Touch(inflight)
    /\ env' = env + 1
    /\ UNCHANGED <<cells, selected, hasPermission, windowMonaco, loads, G, pendingFx>>

\* The widget emits onDidChangeModelDecorations; its markers are now `markers`
\* (there are none unless the model's language is json).
DecorationEvent(markers) ==
    /\ Idle
    /\ WidgetLive
    /\ env < MaxInputs
    /\ W.language = "json" \/ markers = << >>
    /\ LET modeId == W.language
           heard == M.decoSub # << >> /\ modeId = "json"
           set == heard /\ ~markersMatch(M.decoSub[1], markers)
       IN
       /\ W' = [W EXCEPT !.markers = markers]
       /\ M' = [M EXCEPT !.qErrors = IF set THEN <<markers>> ELSE @,
                         !.dirty = @ \/ set]
       /\ obs' = NoObs
    /\ env' = env + 1
    /\ UNCHANGED <<cells, selected, hasPermission, inflight, windowMonaco, loads, G,
                   deb, pendingFx, hist>>

\* markersMatch is called with the two lists at hand (as the decoration
\* listener calls it with errors and newErrors) and returns.
MarkersMatchCall ==
    /\ obs.match # << >>
    /\ ~obs.match[1].called
    /\ obs' = [obs EXCEPT
                 !.match = << [obs.match[1] EXCEPT
                                 !.called = TRUE,
                                 !.result = markersMatch(obs.match[1].a, obs.match[1].b)] >>]
    /\ UNCHANGED <<cells, selected, hasPermission, inflight, windowMonaco, loads, G,
                   deb, M, W, pendingFx, env, hist>>

\* ------------------------------------------------------------------ timers
\* The timer of debounced function id fires: timerExpired. With the wait over
\* since the last call, trailingEdge invokes the wrapped function with the
\* last arguments; otherwise the timer is restarted for the remaining wait.
TimerExpired(id) ==
    /\ ~Dirty
    /\ deb[id].timer = 0
    /\ LET d == deb[id]
           invoke == shouldInvoke(d) /\ d.args # << >>
           reqs == IF invoke THEN WrappedCall(id, d.args[1]) ELSE << >>
           fn == IF invoke /\ ReachesFn(id)
                 THEN << [id |-> id, value |-> d.args[1]] >> ELSE << >>
       IN
       /\ deb' = [deb EXCEPT ![id] = IF shouldInvoke(d) THEN trailingEdge(d)
                                     ELSE [d EXCEPT !.timer = remainingWait(d)]]
       /\ inflight' = IF reqs = << >> THEN inflight
                      ELSE Append(inflight, [cell |-> reqs[1].cell,
                                             value |-> reqs[1].value, touched |-> FALSE])
       /\ obs' = [NoObs EXCEPT
                    !.wrapped = IF invoke THEN << [id |-> id, value |-> d.args[1]] >>
                                ELSE << >>,
                    !.fn = fn, !.update = reqs, !.user = d.user, !.typedAt = d.typedAt]
       /\ hist' = [hist EXCEPT
                    !.nUpdates = IF reqs = << >> THEN @ ELSE Sat(@ + 1),
                    !.lastUpdate = IF reqs = << >> THEN @ ELSE reqs,
                    !.burst = IF fn # << >> /\ @.id = id
                              THEN [@ EXCEPT !.inv = Sat(@ + 1), !.got = <<d.args[1]>>]
                              ELSE @]
    /\ UNCHANGED <<cells, selected, hasPermission, windowMonaco, loads, G, M, W,
                   pendingFx, env>>

\* Time passes, but not past a timer that is due.
Tick ==
    /\ ~Dirty
    /\ ~TimerDue
    /\ \/ \E id \in 1..Len(deb) : deb[id].timer # NoTimer
       \/ hist.sinceKey < changeDelay
    /\ deb' = [id \in 1..Len(deb) |->
                 IF deb[id].timer = NoTimer THEN deb[id]
                 ELSE [deb[id] EXCEPT !.timer = Max(@ - TimeStep, 0),
                                      !.since = Min(@ + TimeStep, changeDelay)]]
    /\ hist' = [hist EXCEPT !.sinceKey = Min(@ + TimeStep, changeDelay)]
    /\ obs' = NoObs
    /\ UNCHANGED <<cells, selected, hasPermission, inflight, windowMonaco, loads, G, M,
                   W, pendingFx, env>>

\* ----------------------------------------------------------- the library
\* loadMonacoAsync: the awaits in order.
NextPcScriptBeforeLoader(pc) ==
    CASE pc = "css" -> "nls"
      [] pc = "nls" -> "loader"
      [] pc = "loader" -> "main"
      [] OTHER -> "done"
NextPc(pc) ==
    CASE pc = "css" -> "loader"
      [] pc = "loader" -> "nls"
      [] pc = "nls" -> "main"
      [] OTHER -> "done"

\* The resource load l awaits has loaded. After the last one the load
\* returns window.monaco and the caller's then() calls setMonaco.
LoadStep(l) ==
    /\ Idle
    /\ LET done == NextPc(l.pc) = "done"
           set == done /\ M.mounted /\ M.inst = l.inst /\ ~M.monaco
       IN
       /\ loads' = (loads (-) SetToBag({l}))
                   (+) (IF done THEN EmptyBag ELSE SetToBag({[l EXCEPT !.pc = NextPc(l.pc)]}))
       /\ windowMonaco' = (windowMonaco \/ done)
       /\ M' = [M EXCEPT !.qMonaco = @ \/ set, !.dirty = @ \/ set]
       /\ obs' = NoObs
    /\ UNCHANGED <<cells, selected, hasPermission, inflight, G, deb, W, pendingFx, env, hist>>

\* ------------------------------------------------------------ the base
\* Someone else changes the text of a cell. useRecordById re-renders
\* EditorGuard when it is the selected cell.
ExternalChange(c, value) ==
    /\ Idle
    /\ env < MaxInputs
    /\ cells[c] # value
    /\ cells' = [cells EXCEPT ![c] = value]
    /\ G' = [G EXCEPT !.dirty = @ \/ (G.live /\ c = selected)]
    /\ env' = env + 1
    /\ obs' = NoObs
    /\ hist' = [hist EXCEPT !.disturbed = TRUE]
    /\ UNCHANGED <<selected, hasPermission, inflight, windowMonaco, loads, deb, M, W,
                   pendingFx>>

\* The oldest table.updateRecordAsync request completes: the cell takes the
\* value it carries.
RequestComplete ==
    /\ Idle
    /\ inflight # << >>
    /\ LET r == inflight[1]
           seen == G.live /\ r.cell = selected /\ cells[r.cell] # r.value
       IN
       /\ cells' = [cells EXCEPT ![r.cell] = r.value]
       /\ G' = [G EXCEPT !.dirty = @ \/ seen]
       /\ hist' = [hist EXCEPT
                    !.echo = IF seen THEN << [value |-> r.value, touched |-> r.touched] >>
                             ELSE @]
    /\ inflight' = Tail(inflight)
    /\ obs' = NoObs
    /\ UNCHANGED <<selected, hasPermission, windowMonaco, loads, deb, M, W, pendingFx, env>>

\* The cursor's selection changes (JsonEditorApp's useWatchable sets
\* selectedRecordId and selectedFieldId), or the user leaves the table or the
\* view (c = NoCell).
Navigate(c) ==
    /\ Idle
    /\ G.live
    /\ env < MaxInputs
    /\ c # selected
    /\ selected' = c
    /\ G' = [G EXCEPT !.dirty = TRUE]
    /\ env' = env + 1
    /\ obs' = NoObs
    /\ hist' = [hist EXCEPT !.disturbed = @ \/ hist.keys # << >>]
    /\ UNCHANGED <<cells, hasPermission, inflight, windowMonaco, loads, deb, M, W,
                   pendingFx>>

\* The user's permission to update the record changes.
PermissionChange ==
    /\ Idle
    /\ G.live
    /\ env < MaxInputs
    /\ hasPermission' = ~hasPermission
    /\ G' = [G EXCEPT !.dirty = TRUE]
    /\ env' = env + 1
    /\ obs' = NoObs
    /\ UNCHANGED <<cells, selected, inflight, windowMonaco, loads, deb, M, W, pendingFx, hist>>

\* The viewport is resized: useWatchable(viewport, ['size'], forceRender).
ViewportResize ==
    /\ Idle
    /\ G.live
    /\ env < MaxInputs
    /\ G' = [G EXCEPT !.qSignal = forceRender(@), !.dirty = TRUE]
    /\ env' = env + 1
    /\ obs' = NoObs
    /\ hist' = [hist EXCEPT !.nForce = @ + 1]
    /\ UNCHANGED <<cells, selected, hasPermission, inflight, windowMonaco, loads, deb, M, W,
                   pendingFx>>

\* The table is gone (JsonEditorApp returns null): EditorGuard and Monaco are
\* unmounted, and the cleanups of Monaco's effects run.
AppUnmount ==
    /\ Idle
    /\ G.live
    /\ pendingFx = {}
    /\ env < MaxInputs
    /\ env' = env + 1
    /\ G' = [G EXCEPT !.live = FALSE]
    /\ M' = [NoMonaco EXCEPT !.inst = M.inst]
    /\ W' = Dispose(W)
    /\ obs' = NoObs
    /\ UNCHANGED <<cells, selected, hasPermission, inflight, windowMonaco, loads, deb,
                   pendingFx, hist>>

\* ------------------------------------------------------- specifications
\* The texts of the cells at the start, and the texts others write.
InitCells == <<<< >>, <<"b">>>>
ExtTexts == {<< >>, <<"b">>}

\* The block starts with nothing selected and nothing rendered. window.monaco
\* is set when an earlier EditorGuard of this frame loaded the library.
Start(library) ==
    /\ cells = InitCells
    /\ selected = NoCell
    /\ hasPermission = TRUE
    /\ inflight = << >>
    /\ windowMonaco = library
    /\ loads = EmptyBag
    /\ G = NewGuard
    /\ deb = << >>
    /\ M = NoMonaco
    /\ W = NoWidget
    /\ pendingFx = {}
    /\ env = 0
    /\ obs = NoObs
    /\ hist = NoHist

Init == Start(FALSE)
InitLoaded == Start(TRUE)

\* Editing: the library is there; the user types, time passes, others edit,
\* the selection moves, the block goes away.
Next ==
    \/ Render
    \/ FlushPassive
    \/ \E ch \in Chars : Keystroke(ch)
    \/ \E id \in 1..Len(deb) : TimerExpired(id)
    \/ Tick
    \/ \E c \in Cells, value \in ExtTexts : ExternalChange(c, value)
    \/ RequestComplete
    \/ \E c \in Cells \cup {NoCell} : Navigate(c)
    \/ AppUnmount

Spec == InitLoaded /\ [][Next]_vars

\* Editing, with the two cells holding the same text at the start.
InitSameText ==
    /\ cells = [c \in Cells |-> << >>]
    /\ selected = NoCell
    /\ hasPermission = TRUE
    /\ inflight = << >>
    /\ windowMonaco = TRUE
    /\ loads = EmptyBag
    /\ G = NewGuard
    /\ deb = << >>
    /\ M = NoMonaco
    /\ W = NoWidget
    /\ pendingFx = {}
    /\ env = 0
    /\ obs = NoObs
    /\ hist = NoHist

SpecSameText == InitSameText /\ [][Next]_vars

\* Loading: the library is not there at the start; the selection moves while
\* it loads.
NextLoad ==
    \/ Render
    \/ FlushPassive
    \/ \E l \in BagToSet(loads) : LoadStep(l)
    \/ \E c \in Cells \cup {NoCell} : Navigate(c)

SpecLoad == Init /\ [][NextLoad]_vars

\* Diagnostics: the widget's decoration events.
NextMarkers ==
    \/ Render
    \/ FlushPassive
    \/ \E markers \in MarkerLists : DecorationEvent(markers)
    \/ \E c \in Cells \cup {NoCell} : Navigate(c)
    \/ ViewportResize
    \/ PermissionChange

SpecMarkers == InitLoaded /\ [][NextMarkers]_vars

\* Diagnostics while the selection moves between cells: the widget's
\* decoration events, and the timers that editor.setValue's change events start.
NextDiagnostics ==
    \/ Render
    \/ FlushPassive
    \/ \E markers \in MarkerLists : DecorationEvent(markers)
    \/ \E c \in Cells \cup {NoCell} : Navigate(c)
    \/ \E id \in 1..Len(deb) : TimerExpired(id)
    \/ Tick

SpecDiagnostics == InitLoaded /\ [][NextDiagnostics]_vars

\* Editing while the user's permission to update the record comes and goes.
NextPermission ==
    \/ Render
    \/ FlushPassive
    \/ \E ch \in Chars : Keystroke(ch)
    \/ \E id \in 1..Len(deb) : TimerExpired(id)
    \/ Tick
    \/ \E c \in Cells \cup {NoCell} : Navigate(c)
    \/ PermissionChange

SpecPermission == InitLoaded /\ [][NextPermission]_vars

\* markersMatch alone: any two lists of FullMarkerLists are at hand at the
\* start, and it is called with them.
InitMatch ==
    /\ \E aMarkers, bMarkers \in FullMarkerLists :
          obs = [NoObs EXCEPT !.match = << [a |-> aMarkers, b |-> bMarkers,
                                            called |-> FALSE, result |-> FALSE] >>]
    /\ cells = InitCells
    /\ selected = NoCell
    /\ hasPermission = TRUE
    /\ inflight = << >>
    /\ windowMonaco = TRUE
    /\ loads = EmptyBag
    /\ G = NewGuard
    /\ deb = << >>
    /\ M = NoMonaco
    /\ W = NoWidget
    /\ pendingFx = {}
    /\ env = 0
    /\ hist = NoHist

NextMatch == MarkersMatchCall

SpecMatch == InitMatch /\ [][NextMatch]_vars

\* ------------------------------------------------------------------ claims
NoTimerRunning == \A id \in 1..Len(deb) : deb[id].timer = NoTimer

\* C1: a burst of two or more calls of one debounced function, each less than
\* changeDelay after the one before, makes no invocation of fn while the timer
\* is running and exactly one once it has fired, with the arguments of the
\* last call of the burst.
C1_BurstInvokesOnceWithLastArgs ==
    hist.burst.n >= 2 =>
        IF deb[hist.burst.id].timer = NoTimer
        THEN hist.burst.inv = 1 /\ hist.burst.got = hist.burst.last
        ELSE hist.burst.inv = 0
C1_Witness == hist.burst.n >= 2 /\ hist.burst.inv = 1

\* C2: a delayed call of a function that is not the most recently created one
\* reaches neither fn nor the table: whenever fn is invoked, it is through the
\* function created last.
C2_OnlyNewestReachesFn ==
    /\ obs.fn # << >> => obs.fn[1].id = Len(deb)
    /\ obs.update # << >> => obs.fn # << >>
C2_Witness ==
    /\ obs.wrapped # << >>
    /\ obs.wrapped[1].id < Len(deb)
    /\ obs.fn = << >>

\* C3: with the widget there, a render whose value prop changes to the text
\* valueRef.current holds calls no setValue and leaves the widget as it is.
C3_EqualValueIsNoOp ==
    [][(/\ M.mounted /\ M.editor /\ M'.mounted
        /\ M'.value # M.value
        /\ M'.value = M.valueRef)
       => (obs'.setValue = << >> /\ W' = W)]_vars
C3_Witness ==
    /\ obs.layout # << >>
    /\ obs.layout[1].value # obs.layout[1].old
    /\ obs.layout[1].value = obs.layout[1].ref
    /\ obs.setValue = << >>

\* C4 as stated: the render that brings back, as the value prop, a text the
\* owner persisted calls no setValue.
C4_EchoNeverReenters == obs.echo # << >> => obs.setValue = << >>
\* C4 as amended: it calls no setValue when the widget is the one the request
\* was issued from and its text has not changed since.
C4_UntouchedEchoDoesNotReenter ==
    (obs.echo # << >> /\ ~obs.echo[1].touched) => obs.setValue = << >>
C4_Witness ==
    /\ obs.echo # << >>
    /\ ~obs.echo[1].touched
    /\ obs.layout # << >>
    /\ obs.setValue = << >>

\* C5: monaco.editor.create is given the value prop of the latest render.
C5_SeedIsLatestValue ==
    obs.create # << >> => obs.create[1].seed = obs.create[1].value

\* C6: loadMonacoAsync is started at most once.
C6_LoadStartedAtMostOnce == hist.nLoads <= 1

\* C7: onLoad is invoked at most once for one Monaco instance.
C7_OnLoadAtMostOnce == hist.nOnLoad <= 1

\* C8: every list onSyntaxError is given differs, under markersMatch, from the
\* list it was given before (the empty list before the first call).
C8_SyntaxErrorOnlyOnChange ==
    obs.syntax # << >> => ~markersMatch(obs.syntax[1].errors, obs.syntax[1].prev)

\* C9: "a" then "b" typed less than changeDelay apart into the empty widget of
\* a cell whose text is not "ab", both heard by a listener that holds the
\* owner's current onChange, nothing else typed, no edit by others and no
\* selection change since: at most one
\* table.updateRecordAsync call, carrying "ab", and exactly one once no timer
\* is running.
TypedAB ==
    /\ Len(hist.keys) = 2
    /\ hist.keys[1].ch = "a" /\ hist.keys[2].ch = "b"
    /\ hist.keys[1].before = << >>
    /\ hist.keys[1].cell # <<"a", "b">>
    /\ hist.keys[1].heard /\ hist.keys[2].heard
    /\ hist.keys[2].fast
    /\ ~hist.disturbed
C10_NoFnAfterUnmount == ~G.live => obs.fn = << >>

\* C11: a live widget belongs to the mounted Monaco instance, and an instance
\* that is not mounted has no widget that is not disposed, no content-change
\* listener and no decoration listener; so an instance unmounted while the
\* library loads gets no widget when the load completes.
C11_UnmountedOwnsNothing ==
    /\ WidgetLive => (M.mounted /\ W.inst = M.inst)
    /\ ~M.mounted => (M.changeSub = NoSub /\ M.decoSub = << >> /\ ~M.editor)
    /\ (M.changeSub # NoSub \/ M.decoSub # << >>) => WidgetLive
\* A widget was created and its instance is unmounted.
C11_Witness == ~M.mounted /\ W.exists /\ W.disposed /\ W.inst = M.inst
\* An instance was unmounted while the library loaded, and the load is over.
C11_WitnessLoad ==
    ~M.mounted /\ M.inst = 1 /\ windowMonaco /\ loads = EmptyBag /\ ~W.exists

\* C12: markersMatch(a, b) is true exactly when the lists of the markers'
\* start line, start column, end line, end column and message, in order, are
\* the same list.
FiveFields(marker) ==
    <<marker.startLineNumber, marker.startColumn, marker.endLineNumber,
      marker.endColumn, marker.message>>
FiveFieldsOf(markers) == [index \in 1..Len(markers) |-> FiveFields(markers[index])]
C12_MatchIffFieldwiseEqual ==
    (obs.match # << >> /\ obs.match[1].called) =>
        (obs.match[1].result <=> FiveFieldsOf(obs.match[1].a) = FiveFieldsOf(obs.match[1].b))
\* Two lists of two markers that differ only in order do not match.
C12_Witness ==
    /\ obs.match # << >>
    /\ obs.match[1].called
    /\ Len(obs.match[1].a) = 2
    /\ obs.match[1].a[1] # obs.match[1].a[2]
    /\ obs.match[1].b = <<obs.match[1].a[2], obs.match[1].a[1]>>
    /\ ~obs.match[1].result

\* C13: the render signal's value, with the calls of forceRender still queued
\* for the next render counted in, is the number of calls made so far; once
\* EditorGuard has rendered it is exactly that number (the value starts at 0).
C13_SignalCountsEveryCall ==
    /\ G.signal + G.qSignal = hist.nForce
    /\ ~G.dirty => G.signal = hist.nForce
\* One render applied two calls or more.
C13_Witness == hist.batch >= 2 /\ ~G.dirty /\ G.signal = hist.nForce

\* C14: while a widget of the mounted instance is live, valueRef.current is
\* the widget's text.
C14_ValueRefIsContent == (WidgetLive /\ M.mounted) => M.valueRef = W.content

\* C15: a content-change event the widget emits for a keystroke makes exactly
\* one call of the onChange prop of Monaco's latest render, with the widget's
\* text.
C15_EveryEditReachesOnChange ==
    obs.key # << >> =>
        obs.onChange = << [id |-> obs.key[1].prop, value |-> obs.key[1].content] >>

\* C16: a load awaits the style sheet first and then loader.js, the nls script
\* and the main script, each begun when the one before it has loaded;
\* window.monaco is set when a main script has loaded, and
\* monaco.editor.create is called only with window.monaco set.
StepNo(pc) ==
    CASE pc = "css" -> 1
      [] pc = "loader" -> 2
      [] pc = "nls" -> 3
      [] pc = "main" -> 4
Advanced(k) == CopiesIn(k, loads') < CopiesIn(k, loads)
C16_LoadStepsInOrder ==
    [][/\ \A l \in BagToSet(loads') :
            CopiesIn(l, loads') > CopiesIn(l, loads) =>
                \/ StepNo(l.pc) = 1 /\ obs'.loadStart = 1
                \/ \E k \in BagToSet(loads) :
                      /\ Advanced(k)
                      /\ k.inst = l.inst
                      /\ StepNo(l.pc) = StepNo(k.pc) + 1
       /\ (windowMonaco' /\ ~windowMonaco) =>
            \E k \in BagToSet(loads) : Advanced(k) /\ StepNo(k.pc) = 4
       /\ obs'.create # << >> => windowMonaco]_vars
\* The library was loaded by a load of this run and a widget was created.
C16_Witness == hist.nLoads >= 1 /\ windowMonaco /\ WidgetLive

\* C17: a table.updateRecordAsync call is never made for a call of onChange
\* that came from editor.setValue.
C17_SetValueNeverPersists == obs.update # << >> => obs.user
\* The same, for calls made while EditorGuard is mounted (this one holds).
C17_MountedSetValueNeverPersists == (G.live /\ obs.update # << >>) => obs.user

\* C18: with nothing left to render, no effect to flush, no timer running, no
\* request in flight and no load in progress, the live widget's text is the
\* text of the selected cell.
Quiescent ==
    /\ ~Dirty /\ pendingFx = {}
    /\ NoTimerRunning
    /\ inflight = << >>
    /\ loads = EmptyBag
C18_SettledWidgetShowsCell ==
    (Quiescent /\ G.live /\ M.mounted /\ WidgetLive /\ selected # NoCell)
        => W.content = cells[selected]

\* C19: every character of the text a table.updateRecordAsync call carries
\* for a keystroke was typed while the cell the call is for was selected.
C19_AllTextTypedAtTarget ==
    (obs.update # << >> /\ obs.user) => obs.typedAt = {obs.update[1].cell}
\* The same, of the keystroke that made the call alone: it was typed while
\* the cell the call is for was selected (this one holds).
C19_UpdateTargetsTypedCell ==
    (obs.update # << >> /\ obs.user) => obs.update[1].cell \in obs.typedAt

\* C20: a table.updateRecordAsync call is made only while
\* checkPermissionsForUpdateRecord grants the update.
C20_NoUpdateWithoutPermission == obs.update # << >> => hasPermission

\* C21: with nothing left to render, no effect to flush, no timer running, no
\* request in flight and no load in progress, and an editor shown, EditorGuard's
\* errors are field-wise equal to the live widget's markers, also after
\* EditorGuard cleared its errors on a change of the selection.
C21_SettledErrorsAreWidgetMarkers ==
    (Quiescent /\ G.live /\ M.mounted /\ WidgetLive /\ selected # NoCell)
        => markersMatch(G.errors, W.markers)

====
